---- MODULE Spec2Model ----
(***************************************************************************)
(* Model of the game engine of rogue_forest (src/src/main.rs): the Game    *)
(* struct, its command handlers and the key dispatch of run_app.           *)
(*                                                                         *)
(* Indices are 0-based as in the source; TLA+ sequences are 1-based, so   *)
(* the element at source index i is seq[i + 1].                            *)
(*                                                                         *)
(* A Rust panic aborts the process.  It is recorded in `panicked`; the     *)
(* other variables then keep the last state between commands and no        *)
(* further command is accepted.  terminal.draw (the rendering shell) is    *)
(* not modelled.                                                           *)
(***************************************************************************)
EXTENDS Integers, Sequences, FiniteSets, Bags, TLC

\* ---------------------------------------------------------------- bounds
Dims == {1, 2}       \* board side lengths explored (--dim)
MaxRound == 2        \* rounds explored
MaxHand == 3         \* hand sizes explored after a tick
MaxDrops == 2        \* longest drop table drawn by SpecDrops
MaxChance == 2       \* largest weight drawn by SpecDrops
LifeRounds == 13     \* rounds explored by SpecLife
LifeHand == 4        \* hand sizes explored after a tick by SpecLife
DrawDen == 12        \* rand::random::<f32>() is drawn from k/DrawDen, k in 0..DrawDen-1

VARIABLES
    dim,          \* GlobalSetting.width = GlobalSetting.height
    state,        \* Game.state
    tile,         \* Game.tile
    hand,         \* Game.hand
    points,       \* Game.points
    round,        \* Game.round
    placing,      \* Game.placing
    choosing,     \* Game.choosing
    panicked,     \* TRUE once a handler has panicked
    lastCmd,      \* history: the command handled by the last step
    placedRound,  \* history: per board slot, the round its plant was placed in (-1: none)
    drop          \* a call of get_drops on its own: drop table, draw, result

vars == <<dim, state, tile, hand, points, round, placing, choosing, panicked, lastCmd, placedRound, drop>>

game == <<state, tile, hand, points, round, placing, choosing>>

\* ------------------------------------------------------------ Option<T>
\* None of Option<usize>
None == [some |-> FALSE, val |-> 0]

Some(v) == [some |-> TRUE, val |-> v]

\* ------------------------------------------------------- plant catalogue
all_plants ==
    << [name |-> "Grass", max_age |-> 2, size_per_turn |-> 1, points_per_size |-> 1,
        drops |-> << [chance |-> 1, plants |-> <<"Grass", "Grass">>],
                     [chance |-> 1, plants |-> <<"Grass", "Tall Grass">>] >>],
       [name |-> "Tall Grass", max_age |-> 4, size_per_turn |-> 1, points_per_size |-> 1,
        drops |-> << [chance |-> 5, plants |-> <<"Tall Grass", "Tall Grass">>],
                     [chance |-> 1, plants |-> <<"Tall Grass", "Shrub">>] >>],
       [name |-> "Shrub", max_age |-> 7, size_per_turn |-> 1, points_per_size |-> 1,
        drops |-> << [chance |-> 5, plants |-> <<"Shrub", "Shrub">>] >>] >>

Names == {all_plants[i].name : i \in 1..Len(all_plants)}

species(n) == all_plants[CHOOSE i \in 1..Len(all_plants) : all_plants[i].name = n]

\* A Plant value: the species fields are immutable copies, so a plant is its
\* species name with the two mutable fields.
Plant(n, a, s) == [name |-> n, age |-> a, size |-> s]

name_to_plant(n) == Plant(n, 0, 0)

\* None of Option<Plant>
NonePlant == [some |-> FALSE, val |-> Plant("", 0, 0)]

\* None of Option<Vec<Plant>>
NoDrops == [some |-> FALSE, val |-> <<>>]

\* ------------------------------------------------------------------ Tile
Empty == [kind |-> "Empty", plant |-> Plant("", 0, 0)]

New(p) == [kind |-> "New", plant |-> p]

Permanent(p) == [kind |-> "Permanent", plant |-> p]

width == dim

height == dim

xy_idx(x, y) == y * width + x

clamp(v, lo, hi) == IF v < lo THEN lo ELSE IF v > hi THEN hi ELSE v

\* f64::round of n / 2.0 for n >= 0: halves round away from zero
round_half(n) == (n + 1) \div 2

PlacingState_default == [x |-> round_half(width), y |-> round_half(height)]

ChoosingState_default == [index |-> Some(0), choice |-> NonePlant]

\* no call of get_drops on its own
NotCalled == [table |-> <<>>, k |-> 0, done |-> FALSE, res |-> NoDrops]

Init ==
    /\ dim \in Dims
    /\ drop = NotCalled
    /\ state = "Choosing"
    /\ tile = [i \in 1..(width * height) |-> Empty]
    /\ hand = <<name_to_plant(all_plants[1].name), name_to_plant(all_plants[1].name)>>
    /\ points = 0
    /\ round = 0
    /\ placing = PlacingState_default
    /\ choosing = ChoosingState_default
    /\ panicked = FALSE
    /\ lastCmd = "None"
    /\ placedRound = [i \in 1..(width * height) |-> -1]

\* a handler panicked while handling command c
Panic(c) ==
    /\ panicked' = TRUE
    /\ lastCmd' = c
    /\ UNCHANGED <<dim, drop, game, placedRound>>

\* ------------------------------------------------------ PlacingState moves
PlacingState_on_up(p) == [p EXCEPT !.y = clamp(p.y + 1, 0, height - 1)]

PlacingState_on_down(p) == [p EXCEPT !.y = clamp(p.y - 1, 0, height - 1)]

PlacingState_on_right(p) == [p EXCEPT !.x = clamp(p.x + 1, 0, width - 1)]

PlacingState_on_left(p) == [p EXCEPT !.x = clamp(p.x - 1, 0, width - 1)]

\* ----------------------------------------------------- ChoosingState moves
\* faulty variant of ChoosingState_on_down: steps past the end of the hand
ChoosingState_on_down_past(c, len) ==
    IF len = 0 THEN c
    ELSE IF c.index.some THEN [c EXCEPT !.index = Some(c.index.val + 1)]
    ELSE [c EXCEPT !.index = Some(0)]

ChoosingState_on_down(c, len) ==
    IF len = 0 THEN c
    ELSE IF c.index.some THEN [c EXCEPT !.index = Some((c.index.val + 1) % len)]
    ELSE [c EXCEPT !.index = Some(0)]

\* faulty variant of ChoosingState_on_up: stops at index 0 instead of wrapping
ChoosingState_on_up_nowrap(c, len) ==
    IF len = 0 THEN c
    ELSE IF c.index.some THEN [c EXCEPT !.index = Some(clamp(c.index.val - 1, 0, len - 1))]
    ELSE [c EXCEPT !.index = Some(0)]

ChoosingState_on_up(c, len) ==
    IF len = 0 THEN c
    ELSE IF c.index.some THEN [c EXCEPT !.index = Some((c.index.val - 1) % len)]
    ELSE [c EXCEPT !.index = Some(0)]

\* ------------------------------------------------------------- get_drops
RECURSIVE sum_chance(_)
sum_chance(ds) == IF ds = <<>> THEN 0 ELSE Head(ds).chance + sum_chance(Tail(ds))

\* faulty variant of in_interval: closed at the low end, open at the high end
in_interval_low(k, sum, running, cur) == k * sum >= running * DrawDen /\ k * sum < cur * DrawDen

\* rnd > running && rnd <= cur, with rnd = (k / DrawDen) * sum
in_interval(k, sum, running, cur) == k * sum > running * DrawDen /\ k * sum <= cur * DrawDen

RECURSIVE drop_walk(_, _, _, _)
drop_walk(ds, running, k, sum) ==
    IF ds = <<>> THEN NoDrops
    ELSE LET d == Head(ds)
             cur == running + d.chance
         IN  IF in_interval(k, sum, running, cur)
             THEN Some([i \in 1..Len(d.plants) |-> name_to_plant(d.plants[i])])
             ELSE drop_walk(Tail(ds), running + d.chance, k, sum)

\* the body of get_drops on the drop table ds of the plant; k is the
\* numerator of the random draw
drops_of(ds, k) == drop_walk(ds, 0, k, sum_chance(ds))

get_drops(plant, k) == drops_of(species(plant.name).drops, k)

\* ------------------------------------------------------------------ take
swap_remove(vec, index) ==
    LET last == vec[Len(vec)]
        cut == SubSeq(vec, 1, Len(vec) - 1)
    IN  IF index + 1 = Len(vec) THEN cut ELSE [cut EXCEPT ![index + 1] = last]

take(vec, index) == IF index >= Len(vec) THEN vec ELSE swap_remove(vec, index)

\* faulty variant of remove: the last element takes the removed slot
remove_swapping(vec, index) == swap_remove(vec, index)

\* Vec::remove: shifts the later elements left
remove(vec, index) == SubSeq(vec, 1, index) \o SubSeq(vec, index + 2, Len(vec))

\* ----------------------------------------------------------- update_game
\* faulty variant of promote: a New tile stays New
promote_never(t) == t

\* if let Tile::New(p) = .. { tile[idx] = Tile::Permanent(p.clone()) }
promote(t) == IF t.kind = "New" THEN Permanent(t.plant) ELSE t

\* p.age += 1; p.size += p.size_per_turn
grow(p) == [p EXCEPT !.age = @ + 1, !.size = @ + species(p.name).size_per_turn]

\* faulty variant of matured, off by one: p.age > p.max_age
matured_late(p) == p.age > species(p.name).max_age

\* p.age >= p.max_age
matured(p) == p.age >= species(p.name).max_age

\* faulty variant of inc: the score of a matured plant is taken off
inc_off(p) == 0 - p.size * species(p.name).points_per_size

\* p.size as f32 * p.points_per_size
inc(p) == p.size * species(p.name).points_per_size

\* the board slots whose plant matures in a tick of board t: the ones that draw
maturing(t) ==
    {i \in 1..Len(t) : i <= width * height /\ promote(t[i]).kind = "Permanent"
                       /\ matured(grow(promote(t[i]).plant))}

\* the loop body for idx .. width*height-1; draws[idx + 1] is the draw of a maturing slot
RECURSIVE update_loop(_, _, _, _, _, _)
update_loop(idx, t, h, pts, pr, draws) ==
    IF idx >= width * height
    THEN [tile |-> t, hand |-> h, points |-> pts, placedRound |-> pr, panic |-> FALSE]
    ELSE IF idx >= Len(t)
    THEN [tile |-> t, hand |-> h, points |-> pts, placedRound |-> pr, panic |-> TRUE]
    ELSE LET t1 == promote(t[idx + 1])
         IN  IF t1.kind = "Permanent"
             THEN LET p == grow(t1.plant)
                  IN  IF matured(p)
                      THEN LET drops == get_drops(p, draws[idx + 1])
                           IN  update_loop(idx + 1, [t EXCEPT ![idx + 1] = Empty],
                                           IF drops.some THEN h \o drops.val ELSE h,
                                           pts + inc(p),
                                           [pr EXCEPT ![idx + 1] = -1], draws)
                      ELSE update_loop(idx + 1, [t EXCEPT ![idx + 1] = Permanent(p)],
                                       h, pts, pr, draws)
             ELSE update_loop(idx + 1, [t EXCEPT ![idx + 1] = t1], h, pts, pr, draws)

\* capRound and capHand bound the exploration: the tick is taken while the
\* round counter is below capRound and the hand it leaves is within capHand
update_game(c, capRound, capHand) ==
    /\ round < capRound
    /\ \E draws \in [maturing(tile) -> 0..(DrawDen - 1)] :
         LET r == update_loop(0, tile, hand, points, placedRound, draws)
         IN  IF r.panic
             THEN Panic(c)
             ELSE /\ Len(r.hand) <= capHand
                  /\ tile' = r.tile
                  /\ hand' = r.hand
                  /\ points' = r.points
                  /\ placedRound' = r.placedRound
                  /\ round' = round + 1
                  /\ lastCmd' = c
                  /\ UNCHANGED <<dim, drop, state, placing, choosing, panicked>>

next_round(c, capRound, capHand) == update_game(c, capRound, capHand)

\* ------------------------------------------------- place / can_place / delete
\* faulty variant of can_place_plant: the tile is not looked at
can_place_always(x, y) == TRUE

can_place_plant(x, y) == tile[xy_idx(x, y) + 1].kind = "Empty"

place_plant(t, x, y, plant) == [t EXCEPT ![xy_idx(x, y) + 1] = New(plant)]

\* faulty variant of delete_matches: any occupied tile is taken back
delete_matches_any(t) == t.kind \in {"New", "Permanent"}

\* if let Tile::New(ref plant) = self.tile[..]
delete_matches(t) == t.kind = "New"

on_delete(c) ==
    LET idx == xy_idx(placing.x, placing.y)
    IN  IF idx >= Len(tile)
        THEN Panic(c)
        ELSE /\ IF delete_matches(tile[idx + 1])
                THEN /\ hand' = Append(hand, tile[idx + 1].plant)
                     /\ tile' = take([tile EXCEPT ![idx + 1] = Empty], idx)
                     /\ placedRound' = take([placedRound EXCEPT ![idx + 1] = -1], idx)
                ELSE UNCHANGED <<hand, tile, placedRound>>
             /\ lastCmd' = c
             /\ UNCHANGED <<dim, drop, state, points, round, placing, choosing, panicked>>

\* ---------------------------------------------------------------- on_space
\* faulty variant of on_space_empty_hand: the commented-out update_game call runs
on_space_empty_hand_advances(c) == update_game(c, MaxRound, MaxHand)

\* hand.len() == 0: return (the update_game call is commented out)
on_space_empty_hand(c) ==
    /\ lastCmd' = c
    /\ UNCHANGED <<dim, drop, game, panicked, placedRound>>

on_space_choosing(c) ==
    IF choosing.index.some /\ choosing.index.val >= Len(hand)
    THEN Panic(c)
    ELSE /\ choosing' = [choosing EXCEPT !.choice =
                            IF choosing.index.some
                            THEN Some(hand[choosing.index.val + 1]) ELSE NonePlant]
         /\ state' = "Placing"
         /\ lastCmd' = c
         /\ UNCHANGED <<dim, drop, tile, hand, points, round, placing, panicked, placedRound>>

\* faulty variant of index_after_remove: the index is not moved back
index_after_remove_same(idx) == Some(idx)

\* index after hand.remove(idx)
index_after_remove(idx) == IF idx > 0 THEN Some(idx - 1) ELSE Some(idx)

on_space_placing(c) ==
    IF xy_idx(placing.x, placing.y) >= Len(tile)
    THEN Panic(c)
    ELSE IF can_place_plant(placing.x, placing.y) /\ choosing.choice.some
    THEN IF choosing.index.some /\ choosing.index.val >= Len(hand)
         THEN Panic(c)
         ELSE /\ tile' = place_plant(tile, placing.x, placing.y, choosing.choice.val)
              /\ placedRound' = [placedRound EXCEPT ![xy_idx(placing.x, placing.y) + 1] = round]
              /\ IF choosing.index.some
                 THEN /\ hand' = remove(hand, choosing.index.val)
                      /\ choosing' = [index |-> index_after_remove(choosing.index.val),
                                      choice |-> NonePlant]
                      /\ state' = "Choosing"
                 ELSE /\ choosing' = [choosing EXCEPT !.choice = NonePlant]
                      /\ UNCHANGED <<hand, state>>
              /\ lastCmd' = c
              /\ UNCHANGED <<dim, drop, points, round, placing, panicked>>
    ELSE /\ lastCmd' = c
         /\ UNCHANGED <<dim, drop, game, panicked, placedRound>>

on_space(c, capRound, capHand) ==
    IF Len(hand) = 0
    THEN on_space_empty_hand(c)
    ELSE CASE state = "Choosing" -> on_space_choosing(c)
           [] state = "Placing" -> on_space_placing(c)
           [] state = "NextRound" -> next_round(c, capRound, capHand)

\* ------------------------------------------------------------------ on_tab
\* faulty variant of tab_target: the cycle runs the other way round
tab_target_reversed(s) ==
    CASE s = "Choosing" -> "Placing"
      [] s = "Placing" -> "NextRound"
      [] s = "NextRound" -> "Choosing"

tab_target(s) ==
    CASE s = "Choosing" -> "NextRound"
      [] s = "Placing" -> "Choosing"
      [] s = "NextRound" -> "Placing"

on_tab(c) ==
    /\ state' = tab_target(state)
    /\ lastCmd' = c
    /\ UNCHANGED <<dim, drop, tile, hand, points, round, placing, choosing, panicked, placedRound>>

\* ------------------------------------------------- run_app: key dispatch
\* a key with no handler in the current mode
Ignored(c) ==
    /\ lastCmd' = c
    /\ UNCHANGED <<dim, drop, game, panicked, placedRound>>

MoveChoosing(c, ch) ==
    /\ choosing' = ch
    /\ lastCmd' = c
    /\ UNCHANGED <<dim, drop, state, tile, hand, points, round, placing, panicked, placedRound>>

MovePlacing(c, pl) ==
    /\ placing' = pl
    /\ lastCmd' = c
    /\ UNCHANGED <<dim, drop, state, tile, hand, points, round, choosing, panicked, placedRound>>

\* KeyCode::Up
MoveUp ==
    /\ ~panicked
    /\ CASE state = "Choosing" -> MoveChoosing("MoveUp", ChoosingState_on_up(choosing, Len(hand)))
         [] state = "Placing" -> MovePlacing("MoveUp", PlacingState_on_up(placing))
         [] state = "NextRound" -> Ignored("MoveUp")

\* KeyCode::Down
MoveDown ==
    /\ ~panicked
    /\ CASE state = "Choosing" -> MoveChoosing("MoveDown", ChoosingState_on_down(choosing, Len(hand)))
         [] state = "Placing" -> MovePlacing("MoveDown", PlacingState_on_down(placing))
         [] state = "NextRound" -> Ignored("MoveDown")

\* KeyCode::Left
MoveLeft ==
    /\ ~panicked
    /\ IF state = "Placing"
       THEN MovePlacing("MoveLeft", PlacingState_on_left(placing))
       ELSE Ignored("MoveLeft")

\* KeyCode::Right
MoveRight ==
    /\ ~panicked
    /\ IF state = "Placing"
       THEN MovePlacing("MoveRight", PlacingState_on_right(placing))
       ELSE Ignored("MoveRight")

\* KeyCode::Char(' ')
Confirm ==
    /\ ~panicked
    /\ on_space("Confirm", MaxRound, MaxHand)

\* KeyCode::Tab
CycleMode ==
    /\ ~panicked
    /\ on_tab("CycleMode")

\* KeyCode::Char('q')
Delete ==
    /\ ~panicked
    /\ IF state = "Placing" THEN on_delete("Delete") ELSE Ignored("Delete")

\* KeyCode::Enter
AdvanceRound ==
    /\ ~panicked
    /\ next_round("AdvanceRound", MaxRound, MaxHand)

Next ==
    \/ MoveUp
    \/ MoveDown
    \/ MoveLeft
    \/ MoveRight
    \/ Confirm
    \/ CycleMode
    \/ Delete
    \/ AdvanceRound

Spec == Init /\ [][Next]_vars

\* ------------------------------------------------- a long game on one cell
\* The player never moves the placing cursor and never deletes: plants are
\* chosen (Up), placed on the cursor's cell (Space) and grown (Enter) for
\* LifeRounds rounds, long enough for a Shrub to be dropped and to mature.
LifeConfirm ==
    /\ ~panicked
    /\ on_space("Confirm", LifeRounds, LifeHand)

LifeAdvanceRound ==
    /\ ~panicked
    /\ next_round("AdvanceRound", LifeRounds, LifeHand)

NextLife ==
    \/ MoveUp
    \/ LifeConfirm
    \/ LifeAdvanceRound

SpecLife == Init /\ [][NextLife]_vars

\* ------------------------------------------------- get_drops on its own
\* drop tables: those of the catalogue and every table of up to MaxDrops
\* entries with a weight in 0..MaxChance and one of two produces lists
DropLists == {<<"Grass">>, <<"Tall Grass", "Shrub">>}

DropEntries == [chance : 0..MaxChance, plants : DropLists]

DropTables ==
    {all_plants[i].drops : i \in 1..Len(all_plants)}
        \cup UNION {[1..n -> DropEntries] : n \in 0..MaxDrops}

InitDrops ==
    /\ dim = 1
    /\ state = "Choosing"
    /\ tile = [i \in 1..(width * height) |-> Empty]
    /\ hand = <<name_to_plant(all_plants[1].name), name_to_plant(all_plants[1].name)>>
    /\ points = 0
    /\ round = 0
    /\ placing = PlacingState_default
    /\ choosing = ChoosingState_default
    /\ panicked = FALSE
    /\ lastCmd = "None"
    /\ placedRound = [i \in 1..(width * height) |-> -1]
    /\ \E ds \in DropTables, k \in 0..(DrawDen - 1) :
          drop = [table |-> ds, k |-> k, done |-> FALSE, res |-> NoDrops]

\* get_drops(&plant, ..) for a plant with the drop table drop.table when
\* rand::random() returns drop.k / DrawDen
CallGetDrops ==
    /\ ~drop.done
    /\ drop' = [drop EXCEPT !.done = TRUE, !.res = drops_of(drop.table, drop.k)]
    /\ UNCHANGED <<dim, game, panicked, lastCmd, placedRound>>

NextDrops == CallGetDrops

SpecDrops == InitDrops /\ [][NextDrops]_vars

\* ------------------------------------------------------------ sanity
TypeOK ==
    /\ dim \in Dims
    /\ state \in {"Choosing", "Placing", "NextRound"}
    /\ Len(hand) <= MaxHand
    /\ round \in 0..MaxRound
    /\ panicked \in BOOLEAN

\* ================================================================ claims
CursorIdx == xy_idx(placing.x, placing.y)

CursorOnBoard == CursorIdx < Len(tile)

Occupied(t) == t.kind \in {"New", "Permanent"}

\* a tick that ran to completion
TickStep == round' = round + 1

\* number of plants of species n across hand plus board
Holding(n, h, t) ==
    Cardinality({i \in DOMAIN h : h[i].name = n})
    + Cardinality({i \in DOMAIN t : Occupied(t[i]) /\ t[i].plant.name = n})

\* C1: the first advance_round after a placement only turns the JustPlaced
\* cell into Growing, with the plant unchanged (age 0, size 0).
C1_GraceTick ==
    [][TickStep =>
         \A i \in 1..Len(tile) :
            tile[i].kind = "New" =>
               /\ tile[i].plant.age = 0 /\ tile[i].plant.size = 0
               /\ tile'[i] = Permanent(tile[i].plant)]_vars

\* score added by the plants whose M-th tick since placement is the one ending in round r
RECURSIVE MaturedScore(_, _, _)
MaturedScore(t, pr, r) ==
    IF t = <<>> THEN 0
    ELSE LET sp == species(Head(t).plant.name)
         IN  (IF Occupied(Head(t)) /\ r - Head(pr) = sp.max_age
              THEN sp.max_age * sp.size_per_turn * sp.points_per_size ELSE 0)
             + MaturedScore(Tail(t), Tail(pr), r)

\* C2: a plant of a species with max_age M and growth g stays on the board for
\* the first M - 1 ticks after its placement and is gone on the M-th: its cell
\* is then Empty and that tick adds M * g * points_per_size to the score for it.
C2_Lifetime ==
    [][TickStep =>
         /\ \A i \in 1..Len(tile) :
              Occupied(tile[i]) =>
                 LET M == species(tile[i].plant.name).max_age
                     ticks == round' - placedRound[i]
                 IN  /\ placedRound[i] >= 0
                     /\ ticks <= M
                     /\ ticks = M => tile'[i] = Empty
                     /\ ticks < M => /\ tile'[i].kind = "Permanent"
                                     /\ tile'[i].plant.name = tile[i].plant.name
         /\ points' = points + MaturedScore(tile, placedRound, round')]_vars

\* the only cell used has been occupied in every round so far, by a Grass, a
\* Tall Grass and a Shrub in turn, and the Shrub has matured in the last tick
C2_Witness ==
    /\ ~panicked
    /\ lastCmd = "AdvanceRound"
    /\ round = species("Grass").max_age + species("Tall Grass").max_age
               + species("Shrub").max_age
    /\ points = round
    /\ \A i \in 1..Len(tile) : tile[i] = Empty

\* C3: the board always holds exactly width * height cells.
C3_BoardSize == Len(tile) = width * height

\* C4: Delete in Placing mode on a JustPlaced cell appends that plant to the
\* hand, leaves the cursor's cell Empty and every other cell unchanged.
C4_DeleteJustPlaced ==
    [][(lastCmd' = "Delete" /\ state = "Placing" /\ CursorOnBoard
        /\ tile[CursorIdx + 1].kind = "New") =>
         /\ hand' = Append(hand, tile[CursorIdx + 1].plant)
         /\ tile' = [tile EXCEPT ![CursorIdx + 1] = Empty]]_vars

\* C5: Delete when the cursor's cell is Empty or Growing changes nothing of
\* the game: board, hand, selection, pending plant, mode, score, round.
C5_DeleteNoop ==
    [][(lastCmd' = "Delete" /\ CursorOnBoard
        /\ tile[CursorIdx + 1].kind \in {"Empty", "Permanent"}) =>
         /\ UNCHANGED game
         /\ ~panicked']_vars

\* Delete was handled in Placing mode with the cursor on a Growing cell
C5_Witness ==
    /\ lastCmd = "Delete"
    /\ ~panicked
    /\ state = "Placing"
    /\ CursorOnBoard
    /\ tile[CursorIdx + 1].kind = "Permanent"
    /\ tile[CursorIdx + 1].plant.age >= 1

\* C6: Confirm in Placing mode on an Empty cell places the pending plant,
\* removes that same plant from the hand and returns to Choosing: hand plus
\* board hold the same plants of every species before and after.
C6_PlaceConserves ==
    [][(lastCmd' = "Confirm" /\ state = "Placing" /\ Len(hand) > 0 /\ CursorOnBoard
        /\ tile[CursorIdx + 1].kind = "Empty" /\ choosing.choice.some) =>
         /\ tile' = [tile EXCEPT ![CursorIdx + 1] = New(choosing.choice.val)]
         /\ state' = "Choosing"
         /\ Len(hand') = Len(hand) - 1
         /\ \A n \in Names : Holding(n, hand', tile') = Holding(n, hand, tile)]_vars

\* C7: no command panics.
C7_NoPanic == ~panicked

C9_NextRoundConfirm ==
    [][(lastCmd' = "Confirm" /\ state = "NextRound") => round' = round + 1]_vars

CursorInBounds ==
    /\ 0 <= placing.x /\ placing.x < width
    /\ 0 <= placing.y /\ placing.y < height

Abs(n) == IF n < 0 THEN -n ELSE n

\* C10: the placing cursor is within the board in every reachable state, and
\* a move changes one axis by at most one.
C10_Cursor ==
    /\ []CursorInBounds
    /\ [][Abs(placing'.x - placing.x) + Abs(placing'.y - placing.y) <= 1]_vars

\* the tick clears slot i (1-based) of the board
MaturesInTick(i) ==
    /\ TickStep
    /\ promote(tile[i]).kind = "Permanent"
    /\ grow(promote(tile[i]).plant).age >= species(tile[i].plant.name).max_age

\* Delete takes the JustPlaced plant of slot i (1-based) back
DeletedAt(i) ==
    /\ lastCmd' = "Delete"
    /\ state = "Placing"
    /\ CursorIdx + 1 = i
    /\ tile[i].kind = "New"

\* C11: can_place(x, y) is true iff the cell is Empty, and a cell that holds a
\* plant stays a cell where can_place is false until that plant matures in a
\* tick or is taken back by Delete.
C11_CanPlace ==
    /\ [](CursorOnBoard =>
            (can_place_plant(placing.x, placing.y) <=> tile[CursorIdx + 1] = Empty))
    /\ [][\A i \in 1..Len(tile) :
            (Occupied(tile[i]) /\ ~MaturesInTick(i) /\ ~DeletedAt(i)) =>
               /\ i <= Len(tile')
               /\ Occupied(tile'[i])
               /\ tile'[i].plant.name = tile[i].plant.name]_vars

\* C12: every occupied cell holds a plant with age < max_age.
C12_AgeBelowMax ==
    \A i \in 1..Len(tile) :
       Occupied(tile[i]) => tile[i].plant.age < species(tile[i].plant.name).max_age

\* a tick has left a Shrub one tick short of its max_age
C12_Witness ==
    /\ ~panicked
    /\ lastCmd = "AdvanceRound"
    /\ \E i \in 1..Len(tile) :
          /\ tile[i].kind = "Permanent"
          /\ tile[i].plant.name = "Shrub"
          /\ tile[i].plant.age = species("Shrub").max_age - 1

\* C13: CycleMode moves the mode Choosing -> NextRound -> Placing -> Choosing
\* and changes nothing else.
C13_CycleMode ==
    [][lastCmd' = "CycleMode" =>
         /\ state = "Choosing" => state' = "NextRound"
         /\ state = "NextRound" => state' = "Placing"
         /\ state = "Placing" => state' = "Choosing"
         /\ UNCHANGED <<tile, hand, points, round, placing, choosing>>
         /\ ~panicked']_vars

\* CycleMode has led from NextRound to Placing with a plant pending and a
\* plant growing on the board
C13_Witness ==
    /\ lastCmd = "CycleMode"
    /\ state = "Placing"
    /\ choosing.choice.some
    /\ \E i \in 1..Len(tile) : tile[i].kind = "Permanent"

\* C14: the AdvanceRound command runs advance_round from any mode: the round
\* counter increases by exactly one and the mode, the cursor, the selection
\* and the pending plant stay as they are.
C14_AdvanceRound ==
    [][lastCmd' = "AdvanceRound" =>
         /\ round' = round + 1
         /\ UNCHANGED <<state, placing, choosing>>]_vars

\* C15: Confirm in Placing mode on an occupied cell changes nothing: board,
\* hand, selection, mode and pending plant stay as they are.
C15_ConfirmOccupied ==
    [][(lastCmd' = "Confirm" /\ state = "Placing" /\ CursorOnBoard
        /\ Occupied(tile[CursorIdx + 1])) =>
         /\ UNCHANGED game
         /\ ~panicked']_vars

\* Confirm was handled in Placing mode on an occupied cell with a plant
\* pending: Confirm in Choosing mode would have left the selected plant pending
C15_Witness ==
    /\ lastCmd = "Confirm"
    /\ ~panicked
    /\ state = "Placing"
    /\ CursorOnBoard
    /\ Occupied(tile[CursorIdx + 1])
    /\ choosing.choice.some
    /\ choosing.index.val < Len(hand)
    /\ hand[choosing.index.val + 1] # choosing.choice.val

\* C16: in Choosing mode Down (select_next) and Up (select_prev) move the
\* selection by one, wrapping at the ends of the hand, undo each other on a
\* non-empty hand and leave the selection as it is on an empty hand.
C16_SelectWrap ==
    [][(state = "Choosing" /\ lastCmd' \in {"MoveUp", "MoveDown"}) =>
         LET len == Len(hand)
             i == choosing.index.val
             j == choosing'.index.val
         IN  /\ UNCHANGED <<state, tile, hand, points, round, placing>>
             /\ choosing'.choice = choosing.choice
             /\ len = 0 => choosing' = choosing
             /\ len > 0 =>
                  /\ choosing.index.some /\ choosing'.index.some
                  /\ lastCmd' = "MoveDown" => j = (IF i = len - 1 THEN 0 ELSE i + 1)
                  /\ lastCmd' = "MoveUp" => j = (IF i = 0 THEN len - 1 ELSE i - 1)
                  /\ ChoosingState_on_up(ChoosingState_on_down(choosing, len), len) = choosing
                  /\ ChoosingState_on_down(ChoosingState_on_up(choosing, len), len) = choosing]_vars

\* Up has wrapped the selection of a three-plant hand from index 0 to index 2
C16_Witness ==
    /\ lastCmd = "MoveUp"
    /\ state = "Choosing"
    /\ Len(hand) = 3
    /\ choosing.index = Some(2)

\* a Confirm in Placing mode that places the pending plant
Placement ==
    /\ lastCmd' = "Confirm"
    /\ ~panicked'
    /\ state = "Placing"
    /\ Len(hand) > 0
    /\ CursorOnBoard
    /\ tile[CursorIdx + 1].kind = "Empty"
    /\ choosing.choice.some

\* C17 as stated: after a placement removed hand entry i the selection is
\* i - 1 if i > 0, 0 if i = 0 and the hand is not empty, None if it is empty.
C17_SelectionNoneOnEmpty ==
    [][Placement =>
         choosing'.index =
            (IF choosing.index.val > 0 THEN Some(choosing.index.val - 1)
             ELSE IF Len(hand') > 0 THEN Some(0) ELSE None)]_vars

\* C17 amended: after a placement removed hand entry i the selection is
\* Some(i - 1) if i > 0 and Some(0) if i = 0, also when the hand is now
\* empty; the selection is never None.
C17_SelectionAfterPlace ==
    /\ []choosing.index.some
    /\ [][Placement =>
            /\ choosing.index.val < Len(hand)
            /\ Len(hand') = Len(hand) - 1
            /\ choosing'.index =
                 (IF choosing.index.val > 0 THEN Some(choosing.index.val - 1) ELSE Some(0))
            /\ (Len(hand') > 0 => choosing'.index.val < Len(hand'))]_vars

\* a placement has just emptied the hand and the selection is Some(0)
C17_Witness ==
    /\ lastCmd = "Confirm"
    /\ ~panicked
    /\ state = "Choosing"
    /\ Len(hand) = 0
    /\ CursorOnBoard
    /\ tile[CursorIdx + 1].kind = "New"
    /\ choosing.index = Some(0)

Running(ds, j) == sum_chance(SubSeq(ds, 1, j))

\* the entries of the table whose interval holds the draw r = (k / DrawDen) * total:
\* running < r <= running + weight
Matching(ds, k) ==
    {j \in 1..Len(ds) :
        /\ Running(ds, j - 1) * DrawDen < k * sum_chance(ds)
        /\ k * sum_chance(ds) <= Running(ds, j) * DrawDen}

\* C19: get_drops with a draw r in [0, total) returns fresh instances (age 0,
\* size 0) of the produces list of the one entry with
\* running < r <= running + weight, and returns no drop, without panicking,
\* when no interval matches, which is when r = 0 or the table is empty.
C19_Drops ==
    drop.done =>
       LET ds == drop.table
           m == Matching(ds, drop.k)
       IN  /\ ~panicked
           /\ Cardinality(m) <= 1
           /\ m = {} <=> (drop.k * sum_chance(ds) = 0 \/ ds = <<>>)
           /\ m = {} => drop.res = NoDrops
           /\ \A j \in m :
                 /\ drop.res.some
                 /\ Len(drop.res.val) = Len(ds[j].plants)
                 /\ \A i \in 1..Len(ds[j].plants) :
                       drop.res.val[i] = Plant(ds[j].plants[i], 0, 0)

\* the draw is exactly the upper end of the first interval of the Grass
\* table (r = 1 of total 2): the first entry is chosen
C19_Witness ==
    /\ drop.done
    /\ drop.table = all_plants[1].drops
    /\ drop.k * sum_chance(drop.table) = DrawDen
    /\ drop.res = Some(<<Plant("Grass", 0, 0), Plant("Grass", 0, 0)>>)

\* C20: a New (just placed) tile does not survive a round boundary: right
\* after a completed tick no board cell is New, and a cell is New only in
\* the round its plant was placed in.
C20_NewOneRound ==
    /\ [][TickStep => \A i \in 1..Len(tile') : tile'[i].kind # "New"]_vars
    /\ [](\A i \in 1..Len(tile) : tile[i].kind = "New" => placedRound[i] = round)

\* a tick has just completed on a board holding a plant placed in the round
\* before, which is now Permanent
C20_Witness ==
    /\ lastCmd = "AdvanceRound"
    /\ ~panicked
    /\ \E i \in 1..Len(tile) :
          /\ tile[i].kind = "Permanent"
          /\ tile[i].plant.age = 1
          /\ placedRound[i] = round - 1

\* C21: with a non-empty hand the selection is a valid index, Some(i) with
\* i < Len(hand); a step that appends to the hand (drops of a tick, the plant
\* taken back by Delete) leaves the selection index as it is, and a hand
\* refilled after being empty is selected at index 0.
C21_SelectionValid ==
    /\ [](Len(hand) > 0 => (choosing.index.some /\ choosing.index.val < Len(hand)))
    /\ [][Len(hand') > Len(hand) =>
            /\ choosing'.index = choosing.index
            /\ Len(hand) = 0 => choosing'.index = Some(0)]_vars

\* a tick has appended the drops of the Grass placed in round 0 to a hand
\* that was empty (the other starting Grass was placed in round 1), and the
\* selection is index 0
C21_Witness ==
    /\ lastCmd = "AdvanceRound"
    /\ ~panicked
    /\ round = 2
    /\ points > 0
    /\ Len(hand) = 2
    /\ choosing.index = Some(0)
    /\ \E i \in 1..Len(tile) :
          /\ tile[i].kind = "Permanent"
          /\ placedRound[i] = 1

\* a plant that has never been aged
Fresh(p) == p.age = 0 /\ p.size = 0

\* C22: every plant in the hand, and the pending plant if there is one, has
\* age 0 and size 0 in every reachable state; so has the plant of every New
\* tile, the only tiles Delete takes back.
C22_HandFresh ==
    /\ \A i \in 1..Len(hand) : Fresh(hand[i])
    /\ choosing.choice.some => Fresh(choosing.choice.val)
    /\ \A i \in 1..Len(tile) : tile[i].kind = "New" => Fresh(tile[i].plant)

\* the hand holds a starting Grass, the drops of a Grass that matured in
\* round 2 and a plant taken back by Delete after that
C22_Witness ==
    /\ lastCmd = "Delete"
    /\ ~panicked
    /\ round = 2
    /\ points > 0
    /\ Len(tile) < width * height
    /\ Len(hand) = 3
    /\ \E i \in 1..Len(hand) : hand[i].name = "Tall Grass"

\* a step that runs next_round: the AdvanceRound command, or Confirm in
\* NextRound mode with a non-empty hand
RunsNextRound ==
    \/ lastCmd' = "AdvanceRound"
    \/ lastCmd' = "Confirm" /\ state = "NextRound" /\ Len(hand) > 0

\* C23: score and round counter never decrease and change only in a step
\* that runs next_round: cursor and selection moves, CycleMode, Delete,
\* Confirm in Choosing with a non-empty hand and Confirm in Placing leave
\* both unchanged; the score changes only in a tick in which a plant matures.
C23_ScoreRoundFrame ==
    [][/\ points' >= points
       /\ round' >= round
       /\ (points' # points \/ round' # round) => RunsNextRound
       /\ lastCmd' \in {"MoveUp", "MoveDown", "MoveLeft", "MoveRight", "CycleMode", "Delete"}
             => UNCHANGED <<points, round>>
       /\ (lastCmd' = "Confirm" /\ state = "Choosing" /\ Len(hand) > 0)
             => UNCHANGED <<points, round>>
       /\ (lastCmd' = "Confirm" /\ state = "Placing") => UNCHANGED <<points, round>>
       /\ points' # points =>
             /\ TickStep
             /\ \E i \in 1..Len(tile) : MaturesInTick(i)]_vars

\* a tick in which one Grass matured has just raised the score by its size 2
C23_Witness ==
    /\ lastCmd = "AdvanceRound"
    /\ ~panicked
    /\ round = 2
    /\ points = 2
    /\ \E i \in 1..Len(hand) : hand[i].name = "Tall Grass"

====
